---- MODULE Spec2Model ----
(***************************************************************************)
(* Model of hotspot/share/runtime/continuation.cpp: continuation entry     *)
(* records (pinning), the preemption safety predicates and the             *)
(* try_preempt orchestrator.                                               *)
(***************************************************************************)
EXTENDS Integers, Sequences, FiniteSets, TLC

\* ---------------------------------------------------------------- bounds
\* Longest entry-record chain (nesting depth) on one carrier thread.
MaxDepth == 2
\* Stand-in for the fixed maximum of ContinuationEntry::_pin_count.
PinMax == 2
\* Cap on the process-wide failure counter (uint64_t in the source).
MaxFail == 2
\* largest number of stack chunks of a continuation
MaxChunks == 2

\* ------------------------------------------------------------ universes
Threads == {"t1", "t2"}
\* The threads that mount continuations in the specification Spec.
Carriers == {"t1"}
\* A thread handle that no longer resolves to a live JavaThread.
DeadThread == "dead"
\* Threads that ask for preemptions.
Requesters == {"r1", "r2"}
ThreadHandles == Threads \cup {DeadThread}
Conts == {"c1", "c2"}
\* nullptr for a thread, a null oop for a continuation or a chunk
NullThread == "null"
NullOop == "null"

vthread_scope == "vthread_scope"
other_scope == "other_scope"

\* freeze result codes
freeze_ok == "freeze_ok"
freeze_pinned_native == "freeze_pinned_native"
freeze_not_mounted == "freeze_not_mounted"
\* any other documented failure code of the freeze engine
freeze_pinned_cs == "freeze_pinned_cs"
EngineResults == {freeze_ok, freeze_pinned_native, freeze_pinned_cs}
TerminalOutcomes == {freeze_ok, freeze_pinned_native, freeze_not_mounted}

\* Classification of the target's last_Java_pc by the interpreter / code cache.
PcKinds == {"interp_no_codelet", "interp_return_bytecode", "interp_safepoint_entry",
            "interp_other_codelet", "safepoint_stub", "other_blob"}

InterpreterPcs == {"interp_no_codelet", "interp_return_bytecode",
                   "interp_safepoint_entry", "interp_other_codelet"}

\* What the safety predicates can read of the target thread when the handshake
\* closure runs.
AllSnapshots == [has_last_Java_frame : BOOLEAN,
                 has_pending_exception : BOOLEAN,
                 last_Java_pc : PcKinds,
                 is_at_poll_safepoint : BOOLEAN,
                 vthread_running : BOOLEAN,
                 vthread_is_instance : BOOLEAN,
                 is_preemption_disabled : BOOLEAN,
                 is_suspended : BOOLEAN]

VARIABLES
  chain,                \* chain[t]: entry records of thread t, innermost first
  done,                 \* done[c]: jdk_internal_vm_Continuation::done
  preempted,            \* preempted[c]: jdk_internal_vm_Continuation::is_preempted
  preempting,           \* preempting[t]: JavaThread::preempting()
  in_VTMS_transition,   \* in_VTMS_transition[t]: JavaThread::is_in_VTMS_transition()
  notify_jvmti_events,  \* java_lang_VirtualThread::notify_jvmti_events()
  fail_counter,         \* static uint64_t fail_counter
  last,                 \* record of the most recent native call and what it did
  request,              \* request[r]: the PreemptHandshake of requesting thread r
  chunks,               \* chunks[c]: c's stack chunks, from its tail along parent()
  cont_parent,          \* cont_parent[c]: jdk_internal_vm_Continuation::parent
  walk                  \* the last frame query: its RegisterMap and the frame returned

vars == <<chain, done, preempted, preempting, in_VTMS_transition,
          notify_jvmti_events, fail_counter, last, request, chunks, cont_parent, walk>>

\* ------------------------------------------------------ safety predicates

\* Mutant: any pc outside the interpreter is taken for a safepoint stub.
is_safe_pc_to_preempt_any_blob(pc, s) ==
  IF pc \in InterpreterPcs
    THEN IF pc = "interp_no_codelet" THEN FALSE
         ELSE IF pc = "interp_return_bytecode" THEN TRUE
         ELSE IF pc = "interp_safepoint_entry" THEN TRUE
         ELSE FALSE
    ELSE TRUE

\* Mutant: any pc inside an interpreter codelet is accepted.
is_safe_pc_to_preempt_any_codelet(pc, s) ==
  IF pc \in InterpreterPcs
    THEN IF pc = "interp_no_codelet" THEN FALSE ELSE TRUE
    ELSE IF pc = "safepoint_stub" THEN TRUE
         ELSE FALSE

\* is_safe_pc_to_preempt(pc, target); s carries target->is_at_poll_safepoint(),
\* which the source reads for its trace line only.
is_safe_pc_to_preempt(pc, s) ==
  IF pc \in InterpreterPcs
    THEN IF pc = "interp_no_codelet" THEN FALSE
         ELSE IF pc = "interp_return_bytecode" THEN TRUE
         ELSE IF pc = "interp_safepoint_entry" THEN TRUE
         ELSE FALSE
    ELSE IF pc = "safepoint_stub" THEN TRUE
         ELSE FALSE

is_safe_vthread_to_preempt_for_jvmti(t, s) ==
  IF ~notify_jvmti_events THEN TRUE
  ELSE IF in_VTMS_transition[t] THEN FALSE
  ELSE IF s.is_suspended THEN FALSE
  ELSE TRUE

\* Mutant: is_preemption_disabled is not tested.
is_safe_vthread_to_preempt_no_disabled_test(t, s) ==
  IF \/ ~s.vthread_running
     \/ ~s.vthread_is_instance
    THEN FALSE
    ELSE is_safe_vthread_to_preempt_for_jvmti(t, s)

is_safe_vthread_to_preempt(t, s) ==
  IF \/ ~s.vthread_running
     \/ ~s.vthread_is_instance
     \/ s.is_preemption_disabled
    THEN FALSE
    ELSE is_safe_vthread_to_preempt_for_jvmti(t, s)

\* Mutant: the target's preempting flag is not tested.
is_safe_to_preempt_no_preempting_test(t, s, is_vthread) ==
  IF ~s.has_last_Java_frame THEN FALSE
  ELSE IF s.has_pending_exception THEN FALSE
  ELSE IF ~is_safe_pc_to_preempt(s.last_Java_pc, s) THEN FALSE
  ELSE IF is_vthread /\ ~is_safe_vthread_to_preempt(t, s) THEN FALSE
  ELSE TRUE

\* Mutant: the target's preempting flag is tested for a virtual thread only.
is_safe_to_preempt_preempting_of_vthread_only(t, s, is_vthread) ==
  IF is_vthread /\ preempting[t] THEN FALSE
  ELSE IF ~s.has_last_Java_frame THEN FALSE
  ELSE IF s.has_pending_exception THEN FALSE
  ELSE IF ~is_safe_pc_to_preempt(s.last_Java_pc, s) THEN FALSE
  ELSE IF is_vthread /\ ~is_safe_vthread_to_preempt(t, s) THEN FALSE
  ELSE TRUE

\* Mutant: the pending-exception test is left out.
is_safe_to_preempt_no_exception_test(t, s, is_vthread) ==
  IF preempting[t] THEN FALSE
  ELSE IF ~s.has_last_Java_frame THEN FALSE
  ELSE IF ~is_safe_pc_to_preempt(s.last_Java_pc, s) THEN FALSE
  ELSE IF is_vthread /\ ~is_safe_vthread_to_preempt(t, s) THEN FALSE
  ELSE TRUE

is_safe_to_preempt(t, s, is_vthread) ==
  IF preempting[t] THEN FALSE
  ELSE IF ~s.has_last_Java_frame THEN FALSE
  ELSE IF s.has_pending_exception THEN FALSE
  ELSE IF ~is_safe_pc_to_preempt(s.last_Java_pc, s) THEN FALSE
  ELSE IF is_vthread /\ ~is_safe_vthread_to_preempt(t, s) THEN FALSE
  ELSE TRUE

\* The snapshot with every field the predicates do not get to read (they return at
\* the first failing test) set to the value that would pass its test: two snapshots
\* that differ only in unread fields are the same input. What is read depends on
\* the target's preempting flag, on is_vthread, on notify_jvmti_events and on the
\* target's is_in_VTMS_transition.
ReadPart(is_preempting, is_vthread, notify, in_transition, s) ==
  LET ljfRead == ~is_preempting
      excRead == ljfRead /\ s.has_last_Java_frame
      pcRead == excRead /\ ~s.has_pending_exception
      vtRead == pcRead /\ is_safe_pc_to_preempt(s.last_Java_pc, s) /\ is_vthread
      instRead == vtRead /\ s.vthread_running
      disRead == instRead /\ s.vthread_is_instance
      susRead == disRead /\ ~s.is_preemption_disabled /\ notify /\ ~in_transition
  IN [has_last_Java_frame |-> ljfRead => s.has_last_Java_frame,
      has_pending_exception |-> excRead /\ s.has_pending_exception,
      last_Java_pc |-> IF pcRead THEN s.last_Java_pc ELSE "interp_return_bytecode",
      is_at_poll_safepoint |-> pcRead /\ s.last_Java_pc = "safepoint_stub"
                                 /\ s.is_at_poll_safepoint,
      vthread_running |-> vtRead => s.vthread_running,
      vthread_is_instance |-> instRead => s.vthread_is_instance,
      is_preemption_disabled |-> disRead /\ s.is_preemption_disabled,
      is_suspended |-> susRead /\ s.is_suspended]

SnapshotsBy ==
  [k \in BOOLEAN \X BOOLEAN \X BOOLEAN \X BOOLEAN |->
     {s \in AllSnapshots : s = ReadPart(k[1], k[2], k[3], k[4], s)}]

\* The inputs the safety predicates can tell apart on target t.
Snapshots(t, is_vthread) ==
  SnapshotsBy[<<preempting[t], is_vthread, notify_jvmti_events, in_VTMS_transition[t]>>]

\* The snapshot recorded for a request that read nothing of the target.
NothingRead ==
  [has_last_Java_frame |-> TRUE, has_pending_exception |-> FALSE,
   last_Java_pc |-> "interp_return_bytecode", is_at_poll_safepoint |-> FALSE,
   vthread_running |-> TRUE, vthread_is_instance |-> TRUE,
   is_preemption_disabled |-> FALSE, is_suspended |-> FALSE]

\* ------------------------------------------------- entry records, mount state

NoCall == [op |-> "none"]

\* The call record to store: a call that repeats the recorded one with the same
\* outcome is marked, so that no call is a stuttering step.
Record(call) == IF last = call THEN [call EXCEPT !.repeat = TRUE] ELSE call

\* Continuation::continuation_scope for a non-null continuation.
continuation_scope(c) == IF c = "c1" THEN vthread_scope ELSE other_scope

Entry(c) == [cont |-> c, pin_count |-> 0, on_stack |-> TRUE]

\* The continuations with an entry record in thread t's chain.
ChainConts(t) == {chain[t][i].cont : i \in 1..Len(chain[t])}

\* Mutant: only last_continuation() is compared, parent links are not followed.
get_continuation_entry_for_continuation_innermost_only(t, c) ==
  IF t \notin Threads \/ c \notin Conts THEN 0
  ELSE IF chain[t] # <<>> /\ chain[t][1].cont = c THEN 1 ELSE 0

\* Continuation::get_continuation_entry_for_continuation: position of the first
\* record for c following parent links from last_continuation, 0 for nullptr.
get_continuation_entry_for_continuation(t, c) ==
  IF t \notin Threads \/ c \notin Conts THEN 0
  ELSE LET hits == {i \in 1..Len(chain[t]) : chain[t][i].cont = c}
       IN IF hits = {} THEN 0 ELSE CHOOSE i \in hits : \A j \in hits : i <= j

\* static is_on_stack(thread, entry)
is_on_stack(t, entry) == IF entry = 0 THEN FALSE ELSE TRUE

is_continuation_mounted(t, c) ==
  is_on_stack(t, get_continuation_entry_for_continuation(t, c))

\* The frames of c are live on t's stack: c has an entry record in t's chain whose
\* stack region has not been relocated to the heap.
FramesOnStack(t, c) ==
  \E i \in 1..Len(chain[t]) : chain[t][i].cont = c /\ chain[t][i].on_stack

\* ContinuationEntry::pin / unpin (continuationEntry.hpp)
ContinuationEntry_pin(ce) ==
  IF ce.pin_count = PinMax THEN [ret |-> FALSE, ce |-> ce]
  ELSE [ret |-> TRUE, ce |-> [ce EXCEPT !.pin_count = @ + 1]]

ContinuationEntry_unpin(ce) ==
  IF ce.pin_count = 0 THEN [ret |-> FALSE, ce |-> ce]
  ELSE [ret |-> TRUE, ce |-> [ce EXCEPT !.pin_count = @ - 1]]

\* Mutant: pin() reports failure when no continuation is mounted.
Continuation_pin_fails_unmounted(current) ==
  IF chain[current] = <<>> THEN [ret |-> FALSE, entries |-> chain[current]]
  ELSE LET r == ContinuationEntry_pin(Head(chain[current]))
       IN [ret |-> r.ret, entries |-> <<r.ce>> \o Tail(chain[current])]

\* Mutant: pin() pins the outermost entry of the chain, not last_continuation().
Continuation_pin_outermost(current) ==
  IF chain[current] = <<>> THEN [ret |-> TRUE, entries |-> chain[current]]
  ELSE LET n == Len(chain[current])
           r == ContinuationEntry_pin(chain[current][n])
       IN [ret |-> r.ret, entries |-> SubSeq(chain[current], 1, n - 1) \o <<r.ce>>]

\* Continuation::pin(current): the return value and current's chain afterwards.
Continuation_pin(current) ==
  IF chain[current] = <<>> THEN [ret |-> TRUE, entries |-> chain[current]]
  ELSE LET r == ContinuationEntry_pin(Head(chain[current]))
       IN [ret |-> r.ret, entries |-> <<r.ce>> \o Tail(chain[current])]

\* Mutant: unpin() calls the entry's pin().
Continuation_unpin_calls_pin(current) ==
  IF chain[current] = <<>> THEN [ret |-> TRUE, entries |-> chain[current]]
  ELSE LET r == ContinuationEntry_pin(Head(chain[current]))
       IN [ret |-> r.ret, entries |-> <<r.ce>> \o Tail(chain[current])]

\* Continuation::unpin(current)
Continuation_unpin(current) ==
  IF chain[current] = <<>> THEN [ret |-> TRUE, entries |-> chain[current]]
  ELSE LET r == ContinuationEntry_unpin(Head(chain[current]))
       IN [ret |-> r.ret, entries |-> <<r.ce>> \o Tail(chain[current])]

\* The innermost entry's pin count, 0 when nothing is mounted on t.
HeadPinCount(t) == IF chain[t] = <<>> THEN 0 ELSE Head(chain[t]).pin_count

\* A thread executes Java code (and so can call into the VM) unless it has been
\* frozen by a preemption and has not resumed yet.
Running(t) == ~preempting[t]

CONT_pin(t) ==
  /\ Running(t)
  /\ LET r == Continuation_pin(t)
     IN /\ chain' = [chain EXCEPT ![t] = r.entries]
        /\ last' = Record([op |-> "pin", repeat |-> FALSE, thr |-> t, res |-> r.ret,
                    exception |-> IF r.ret THEN "none" ELSE "pin overflow",
                    pin_count_before |-> HeadPinCount(t)])
  /\ UNCHANGED <<done, preempted, preempting, in_VTMS_transition,
                 notify_jvmti_events, fail_counter>>
  /\ UNCHANGED <<request, chunks, cont_parent, walk>>

CONT_unpin(t) ==
  /\ Running(t)
  /\ LET r == Continuation_unpin(t)
     IN /\ chain' = [chain EXCEPT ![t] = r.entries]
        /\ last' = Record([op |-> "unpin", repeat |-> FALSE, thr |-> t, res |-> r.ret,
                    exception |-> IF r.ret THEN "none" ELSE "pin underflow",
                    pin_count_before |-> HeadPinCount(t)])
  /\ UNCHANGED <<done, preempted, preempting, in_VTMS_transition,
                 notify_jvmti_events, fail_counter>>
  /\ UNCHANGED <<request, chunks, cont_parent, walk>>

\* ------------------------------------------------------ preemption orchestrator

\* Mutant: the is_continuation_done test is left out.
try_preempt_not_mounted_no_done_test(t, c) ==
  IF chain[t] = <<>> THEN TRUE
  ELSE Head(chain[t]).cont # c

\* try_preempt's first test: no innermost entry, another continuation, or done.
try_preempt_not_mounted(t, c) ==
  IF chain[t] = <<>> THEN TRUE
  ELSE LET mounted_cont == Head(chain[t]).cont
       IN mounted_cont # c \/ done[mounted_cont]

\* JvmtiUnmountBeginMark constructor: _do_VTMS_transition
jubm_do_VTMS_transition(is_vthread) ==
  IF ~is_vthread THEN FALSE ELSE notify_jvmti_events

\* JvmtiUnmountBeginMark constructor: _transition_succeded, start_ok being what
\* JvmtiVTMSTransitionDisabler::start_VTMS_transition returns when it is called.
jubm_transition_succeded(is_vthread, start_ok) ==
  IF jubm_do_VTMS_transition(is_vthread) THEN start_ok ELSE TRUE

\* Mutant: a transition that was begun is not undone when the freeze fails.
jubm_destructor_no_undo(is_vthread, do_VTMS_transition, transition_succeded, preempt_result) ==
  IF ~is_vthread THEN "none"
  ELSE IF do_VTMS_transition
    THEN IF preempt_result = freeze_ok THEN "rebind_to_jvmti_thread_state_of"
         ELSE "none"
    ELSE "none"

\* Mutant: finish_VTMS_transition is called although the begin failed.
jubm_destructor_undo_unbegun(is_vthread, do_VTMS_transition, transition_succeded, preempt_result) ==
  IF ~is_vthread THEN "none"
  ELSE IF do_VTMS_transition
    THEN IF preempt_result = freeze_ok THEN "rebind_to_jvmti_thread_state_of"
         ELSE "finish_VTMS_transition"
    ELSE "none"

\* Mutant: the transition is finished, not rebound, after a successful freeze.
jubm_destructor_finish_on_ok(is_vthread, do_VTMS_transition, transition_succeded, preempt_result) ==
  IF ~is_vthread THEN "none"
  ELSE IF do_VTMS_transition
    THEN IF transition_succeded THEN "finish_VTMS_transition" ELSE "none"
    ELSE "none"

\* JvmtiUnmountBeginMark destructor: the call it makes to close the transition.
jubm_destructor(is_vthread, do_VTMS_transition, transition_succeded, preempt_result) ==
  IF ~is_vthread THEN "none"
  ELSE IF do_VTMS_transition
    THEN IF preempt_result = freeze_ok THEN "rebind_to_jvmti_thread_state_of"
         ELSE IF transition_succeded THEN "finish_VTMS_transition"
         ELSE "none"
    ELSE "none"

\* Mutant: the engine does not look at the pin count.
freeze_preempt_ignoring_pins(t, eng) == eng

\* The freeze engine behind freeze_preempt_entry(): it re-validates feasibility on
\* the target and refuses a pinned continuation; eng is what it reports otherwise.
freeze_preempt(t, eng) ==
  IF Head(chain[t]).pin_count > 0 THEN freeze_pinned_native ELSE eng

\* Mutant: the preempting mark is cleared whatever the freeze returned.
preempting_after_freeze_always_cleared(res) == FALSE

\* try_preempt after the freeze returned res: the target's preempting flag
\* (set_preempting(true) before the call, set_preempting(false) on failure).
preempting_after_freeze(res) == IF res # freeze_ok THEN FALSE ELSE TRUE

\* try_preempt after the freeze returned res: fail_counter
fail_counter_after_freeze(res) ==
  IF res # freeze_ok THEN fail_counter + 1 ELSE fail_counter

\* Mutant: a failure status of the engine is mapped to freeze_pinned_native.
try_preempt_return_mapped(res) == IF res = freeze_ok THEN freeze_ok ELSE freeze_pinned_native

\* The value try_preempt returns once the freeze engine has reported res.
try_preempt_return(res) == res

\* The record of a preemption request.
PreemptCall(h, c, s, res, handshake, start, engine, completion) ==
  Record([op |-> "try_preempt", repeat |-> FALSE, thr |-> h, cont |-> c, snap |-> s,
          res |-> res, handshake |-> handshake, start_VTMS_transition |-> start,
          engine |-> engine, completion |-> completion])

\* Continuation::try_preempt(target, continuation), run by PreemptHandshake::do_thread
\* on target t. What the target's snapshot, start_VTMS_transition and the freeze
\* engine answer is drawn where the code asks for it.
try_preempt(t, c) ==
  IF try_preempt_not_mounted(t, c)
  THEN /\ last' = PreemptCall(t, c, NothingRead, freeze_not_mounted, TRUE,
                              "not_called", "not_called", "none")
       /\ UNCHANGED <<chain, done, preempted, preempting, in_VTMS_transition,
                      notify_jvmti_events, fail_counter>>
  ELSE
  LET mounted_cont == Head(chain[t]).cont
      is_vthread == continuation_scope(mounted_cont) = vthread_scope
      do_VTMS == jubm_do_VTMS_transition(is_vthread)
  IN
  \E s \in Snapshots(t, is_vthread) :
  IF ~is_safe_to_preempt(t, s, is_vthread)
  THEN /\ last' = PreemptCall(t, c, s, freeze_pinned_native, TRUE,
                              "not_called", "not_called", "none")
       /\ UNCHANGED <<chain, done, preempted, preempting, in_VTMS_transition,
                      notify_jvmti_events, fail_counter>>
  ELSE
  \E start_ok \in IF do_VTMS THEN BOOLEAN ELSE {TRUE} :
  LET succeded == jubm_transition_succeded(is_vthread, start_ok)
      start == IF ~do_VTMS THEN "not_called" ELSE IF start_ok THEN "succeeded" ELSE "failed"
  IN
  IF ~succeded
  THEN /\ last' = PreemptCall(t, c, s, freeze_pinned_native, TRUE, start, "not_called",
                              jubm_destructor(is_vthread, do_VTMS, succeded, freeze_pinned_native))
       /\ UNCHANGED <<chain, done, preempted, preempting, in_VTMS_transition,
                      notify_jvmti_events, fail_counter>>
  ELSE
  \E eng \in EngineResults :
  LET res == freeze_preempt(t, eng)
      completion == jubm_destructor(is_vthread, do_VTMS, succeded, res)
  IN /\ res # freeze_ok => fail_counter < MaxFail
     /\ chain' = IF res = freeze_ok
                   THEN [chain EXCEPT ![t][1].on_stack = FALSE]
                   ELSE chain
     /\ preempted' = IF res = freeze_ok
                       THEN [preempted EXCEPT ![mounted_cont] = TRUE]
                       ELSE preempted
     /\ preempting' = [preempting EXCEPT ![t] = preempting_after_freeze(res)]
     /\ in_VTMS_transition' =
           [in_VTMS_transition EXCEPT
              ![t] = IF ~do_VTMS THEN @
                     ELSE IF completion = "finish_VTMS_transition" THEN FALSE
                     ELSE TRUE]
     /\ fail_counter' = fail_counter_after_freeze(res)
     /\ last' = PreemptCall(t, c, s, try_preempt_return(res), TRUE, start, res, completion)
     /\ UNCHANGED <<done, notify_jvmti_events>>

\* CONT_tryPreempt0(jcont, jthread): resolve the thread handle, then run the
\* handshake closure on the target and report its result.
CONT_tryPreempt0(h, c) ==
  /\ IF h \in Threads
     THEN try_preempt(h, c)
     ELSE /\ last' = PreemptCall(h, c, NothingRead, freeze_not_mounted, FALSE,
                                 "not_called", "not_called", "none")
          /\ UNCHANGED <<chain, done, preempted, preempting, in_VTMS_transition,
                         notify_jvmti_events, fail_counter>>
  /\ UNCHANGED <<request, chunks, cont_parent, walk>>

\* ------------------------------------------------------- frame walking

\* No frame query made yet.
NoWalk == [op |-> "none"]

\* The chunk lists a continuation can have: each chunk is empty or holds frames.
ChunkLists == UNION {[1..n -> [is_empty : BOOLEAN]] : n \in 0..MaxChunks}

\* ContinuationWrapper::last_nonempty_chunk(): the first chunk from the tail along
\* parent() that is not empty, as its position in the list, 0 for nullptr.
last_nonempty_chunk(c) ==
  LET full == {i \in 1..Len(chunks[c]) : ~chunks[c][i].is_empty}
  IN IF full = {} THEN 0 ELSE CHOOSE i \in full : \A j \in full : i <= j

\* frame(): the empty frame.
EmptyFrame == [kind |-> "empty"]

\* RegisterMap::set_stack_chunk(nullptr), and the map's chunk set to chunk i of c.
NoChunk == [cont |-> NullOop, index |-> 0]
ChunkRef(c, i) == [cont |-> c, index |-> i]

\* A RegisterMap for thread th that is not in a continuation.
NewMap(th) == [thread |-> th, stack_chunk |-> NoChunk]

\* stackChunkOopDesc::top_frame(map) of chunk i of c: the chunk's top frame; the
\* map's chunk becomes this chunk.
chunk_top_frame(c, i, map) ==
  [map |-> [map EXCEPT !.stack_chunk = ChunkRef(c, i)],
   frame |-> [kind |-> "heap", cont |-> c, chunk |-> i]]

\* Mutant: the tail chunk is taken, empty or not.
continuation_top_frame_of_tail(c, map) ==
  LET chunk == IF chunks[c] = <<>> THEN 0 ELSE 1
      set == [map EXCEPT !.stack_chunk = IF chunk = 0 THEN NoChunk ELSE ChunkRef(c, chunk)]
  IN IF chunk # 0 THEN chunk_top_frame(c, chunk, set)
     ELSE [map |-> set, frame |-> EmptyFrame]

\* static continuation_top_frame(cont, map)
continuation_top_frame(c, map) ==
  LET chunk == last_nonempty_chunk(c)
      set == [map EXCEPT !.stack_chunk = IF chunk = 0 THEN NoChunk ELSE ChunkRef(c, chunk)]
  IN IF chunk # 0 THEN chunk_top_frame(c, chunk, set)
     ELSE [map |-> set, frame |-> EmptyFrame]

\* ContinuationWrapper::is_empty()
is_empty(c) == last_nonempty_chunk(c) = 0

\* Continuation::has_last_Java_frame(continuation, frame, map): frame is what the
\* caller's frame object held before the call.
has_last_Java_frame(c, frame, map) ==
  IF ~is_empty(c)
    THEN LET r == continuation_top_frame(c, map)
         IN [ret |-> TRUE, map |-> r.map, frame |-> r.frame]
    ELSE [ret |-> FALSE, map |-> map, frame |-> frame]

\* Continuation::last_frame(continuation, map)
last_frame(c, map) == continuation_top_frame(c, map)

\* ContinuationEntry::entry_sp() of the k-th record of a chain, innermost first: the
\* stack grows downwards, so an outer record lies at a higher address.
entry_sp(k) == 2 * k

\* static is_sp_in_continuation(entry, sp)
is_sp_in_continuation(k, sp) == entry_sp(k) > sp

\* Continuation::get_continuation_entry_for_sp(thread, sp): 0 for nullptr.
get_continuation_entry_for_sp(t, sp) ==
  LET hits == {k \in 1..Len(chain[t]) : is_sp_in_continuation(k, sp)}
  IN IF hits = {} THEN 0 ELSE CHOOSE k \in hits : \A j \in hits : k <= j

\* Continuation::top_frame(callee, map), for a callee inside a continuation of the
\* map's thread.
top_frame(callee, map) ==
  LET ce == get_continuation_entry_for_sp(map.thread, callee.sp)
      continuation == chain[map.thread][ce].cont
  IN continuation_top_frame(continuation, map)

\* Mutant: every continuation is treated as unmounted.
continuation_parent_frame_ignoring_mount(map) ==
  LET cont == map.stack_chunk.cont
      parent == cont_parent[cont]
      chunk == IF parent # NullOop THEN last_nonempty_chunk(parent) ELSE 0
  IN IF chunk # 0 THEN chunk_top_frame(parent, chunk, map)
     ELSE [map |-> [map EXCEPT !.stack_chunk = NoChunk], frame |-> EmptyFrame]

\* Continuation::continuation_parent_frame(map), for a map that is in a continuation;
\* the continuation is mounted when the map's thread has an entry record for it. The
\* registers recorded in the map (update_map) are left out.
continuation_parent_frame(map) ==
  LET cont == map.stack_chunk.cont
      entry == get_continuation_entry_for_continuation(map.thread, cont)
      is_mounted == entry # 0
      parent == cont_parent[cont]
      chunk == IF parent # NullOop THEN last_nonempty_chunk(parent) ELSE 0
  IN IF ~is_mounted
       THEN IF chunk # 0 THEN chunk_top_frame(parent, chunk, map)
            ELSE [map |-> [map EXCEPT !.stack_chunk = NoChunk], frame |-> EmptyFrame]
       ELSE [map |-> [map EXCEPT !.stack_chunk = NoChunk],
             frame |-> [kind |-> "carrier", thread |-> map.thread, sp |-> entry_sp(entry)]]

\* The frame queries, each leaving its map and its result in walk.
FrameQuery(w) ==
  /\ walk' = w
  /\ UNCHANGED <<chain, done, preempted, preempting, in_VTMS_transition,
                 notify_jvmti_events, fail_counter, last, request, chunks, cont_parent>>

Walk_last_frame(th, c) ==
  /\ c # NullOop
  /\ LET r == last_frame(c, NewMap(th))
     IN FrameQuery([op |-> "last_frame", cont |-> c, ret |-> TRUE,
                    map |-> r.map, frame |-> r.frame])

Walk_has_last_Java_frame(th, c) ==
  /\ c # NullOop
  /\ LET r == has_last_Java_frame(c, [kind |-> "unset"], NewMap(th))
     IN FrameQuery([op |-> "has_last_Java_frame", cont |-> c, ret |-> r.ret,
                    map |-> r.map, frame |-> r.frame])

\* A stack walk on thread t leaves the thawed frames of a mounted continuation at
\* the frame with stack pointer sp.
Walk_top_frame(t, sp) ==
  /\ get_continuation_entry_for_sp(t, sp) # 0
  /\ LET r == top_frame([kind |-> "stack", sp |-> sp], NewMap(t))
     IN FrameQuery([op |-> "top_frame",
                    cont |-> chain[t][get_continuation_entry_for_sp(t, sp)].cont,
                    ret |-> TRUE, map |-> r.map, frame |-> r.frame])

\* The walk that the last query started or continued reaches the outermost frame of
\* the continuation its map is in.
Walk_continuation_parent_frame ==
  /\ walk.op # "none"
  /\ walk.map.stack_chunk # NoChunk
  /\ LET r == continuation_parent_frame(walk.map)
     IN FrameQuery([op |-> "continuation_parent_frame", cont |-> walk.map.stack_chunk.cont,
                    ret |-> TRUE, map |-> r.map, frame |-> r.frame])

\* ------------------------------------------- the handshake, step by step

\* A requesting thread with no PreemptHandshake under way.
NoRequest == [state |-> "idle"]

\* Mutant: the handshake is dispatched whether or not the handle resolves to a live
\* thread.
CONT_tryPreempt0_dispatch_without_alive_test(r, h, c) ==
  /\ request[r].state = "idle"
  /\ request' = [request EXCEPT
                   ![r] = [state |-> "dispatched", target |-> h, cont |-> c,
                           result |-> freeze_not_mounted]]
  /\ last' = [op |-> "execute", requester |-> r, thr |-> h, cont |-> c]
  /\ UNCHANGED <<chain, done, preempted, preempting, in_VTMS_transition,
                 notify_jvmti_events, fail_counter, chunks, cont_parent, walk>>

\* CONT_tryPreempt0 up to Handshake::execute, called by requesting thread r: result
\* starts as freeze_not_mounted; for a handle that resolves to no live thread it is
\* returned at once, otherwise the closure is constructed (its _result is
\* freeze_not_mounted) and handed to the handshake mechanism.
CONT_tryPreempt0_dispatch(r, h, c) ==
  /\ request[r].state = "idle"
  /\ IF h \in Threads
       THEN /\ request' = [request EXCEPT
                             ![r] = [state |-> "dispatched", target |-> h, cont |-> c,
                                     result |-> freeze_not_mounted]]
            /\ last' = [op |-> "execute", requester |-> r, thr |-> h, cont |-> c]
       ELSE /\ request' = request
            /\ last' = PreemptCall(h, c, NothingRead, freeze_not_mounted, FALSE,
                                   "not_called", "not_called", "none")
  /\ UNCHANGED <<chain, done, preempted, preempting, in_VTMS_transition,
                 notify_jvmti_events, fail_counter, chunks, cont_parent, walk>>

\* Mutant: the closure does not store what try_preempt returns.
PreemptHandshake_do_thread_result_dropped(r) ==
  /\ request[r].state = "dispatched"
  /\ try_preempt(request[r].target, request[r].cont)
  /\ request' = [request EXCEPT ![r] = [@ EXCEPT !.state = "completed"]]
  /\ UNCHANGED <<chunks, cont_parent, walk>>

\* PreemptHandshake::do_thread: the closure of r's request runs for its target and
\* stores what try_preempt returns.
PreemptHandshake_do_thread(r) ==
  /\ request[r].state = "dispatched"
  /\ try_preempt(request[r].target, request[r].cont)
  /\ request' = [request EXCEPT ![r] = [@ EXCEPT !.state = "completed",
                                                  !.result = last'.res]]
  /\ UNCHANGED <<chunks, cont_parent, walk>>

\* Mutant: the requester reads the closure's result without waiting for it to run.
CONT_tryPreempt0_return_without_waiting(r) ==
  /\ request[r].state # "idle"
  /\ request' = [request EXCEPT ![r] = NoRequest]
  /\ last' = Record([op |-> "return", repeat |-> FALSE, requester |-> r,
                      thr |-> request[r].target, cont |-> request[r].cont,
                      res |-> request[r].result])
  /\ UNCHANGED <<chain, done, preempted, preempting, in_VTMS_transition,
                 notify_jvmti_events, fail_counter, chunks, cont_parent, walk>>

\* CONT_tryPreempt0 after Handshake::execute has returned: result = ph.result().
CONT_tryPreempt0_return(r) ==
  /\ request[r].state = "completed"
  /\ request' = [request EXCEPT ![r] = NoRequest]
  /\ last' = Record([op |-> "return", repeat |-> FALSE, requester |-> r,
                      thr |-> request[r].target, cont |-> request[r].cont,
                      res |-> request[r].result])
  /\ UNCHANGED <<chain, done, preempted, preempting, in_VTMS_transition,
                 notify_jvmti_events, fail_counter, chunks, cont_parent, walk>>

\* ------------------------------------------------ the rest of the runtime

\* Any thread's chain holds c.
MountedSomewhere(c) == \E t \in Threads : c \in ChainConts(t)

\* A continuation is mounted on carrier t (enterSpecial pushes its entry record).
Mount(t, c) ==
  /\ Running(t)
  /\ ~done[c]
  /\ ~MountedSomewhere(c)
  /\ Len(chain[t]) < MaxDepth
  /\ chain' = [chain EXCEPT ![t] = <<Entry(c)>> \o @]
  /\ preempted' = [preempted EXCEPT ![c] = FALSE]
  /\ last' = NoCall
  /\ UNCHANGED <<done, preempting, in_VTMS_transition, notify_jvmti_events, fail_counter>>
  /\ UNCHANGED <<request, chunks, cont_parent, walk>>

\* The innermost continuation yields: a voluntary freeze, refused while pinned.
Yield(t) ==
  /\ Running(t)
  /\ chain[t] # <<>>
  /\ Head(chain[t]).pin_count = 0
  /\ ~done[Head(chain[t]).cont]
  /\ chain' = [chain EXCEPT ![t] = Tail(@)]
  /\ last' = NoCall
  /\ UNCHANGED <<done, preempted, preempting, in_VTMS_transition,
                 notify_jvmti_events, fail_counter>>
  /\ UNCHANGED <<request, chunks, cont_parent, walk>>

\* The innermost continuation's top-level computation returns.
MarkDone(t) ==
  /\ Running(t)
  /\ chain[t] # <<>>
  /\ ~done[Head(chain[t]).cont]
  /\ done' = [done EXCEPT ![Head(chain[t]).cont] = TRUE]
  /\ last' = NoCall
  /\ UNCHANGED <<chain, preempted, preempting, in_VTMS_transition,
                 notify_jvmti_events, fail_counter>>
  /\ UNCHANGED <<request, chunks, cont_parent, walk>>

\* The thread leaves the entry frame of a finished continuation.
Exit(t) ==
  /\ Running(t)
  /\ chain[t] # <<>>
  /\ done[Head(chain[t]).cont]
  /\ chain' = [chain EXCEPT ![t] = Tail(@)]
  /\ last' = NoCall
  /\ UNCHANGED <<done, preempted, preempting, in_VTMS_transition,
                 notify_jvmti_events, fail_counter>>
  /\ UNCHANGED <<request, chunks, cont_parent, walk>>

\* Continuation::verify_preemption(thread), checked by the target when it resumes
\* after a preemption froze it.
verify_preemption(t) ==
  /\ chain[t] # <<>>
  /\ preempted[Head(chain[t]).cont]
  /\ ~Head(chain[t]).on_stack

\* The preempted target resumes in its entry frame, unlinks the entry record and
\* finishes the unmount.
ReturnFromFreeze(t) ==
  /\ preempting[t]
  /\ verify_preemption(t)
  /\ chain' = [chain EXCEPT ![t] = Tail(@)]
  /\ preempting' = [preempting EXCEPT ![t] = FALSE]
  /\ in_VTMS_transition' = [in_VTMS_transition EXCEPT ![t] = FALSE]
  /\ last' = NoCall
  /\ UNCHANGED <<done, preempted, notify_jvmti_events, fail_counter>>
  /\ UNCHANGED <<request, chunks, cont_parent, walk>>

\* The target enters or leaves a mount transition of its own.
VTMSTransition(t) ==
  /\ Running(t)
  /\ chain[t] # <<>>
  /\ continuation_scope(Head(chain[t]).cont) = vthread_scope
  /\ in_VTMS_transition' = [in_VTMS_transition EXCEPT ![t] = ~@]
  /\ last' = NoCall
  /\ UNCHANGED <<chain, done, preempted, preempting, notify_jvmti_events, fail_counter>>
  /\ UNCHANGED <<request, chunks, cont_parent, walk>>

\* A JVMTI agent switches virtual-thread event notification on or off.
SetNotifyJvmtiEvents ==
  /\ notify_jvmti_events' = ~notify_jvmti_events
  /\ last' = NoCall
  /\ UNCHANGED <<chain, done, preempted, preempting, in_VTMS_transition, fail_counter>>
  /\ UNCHANGED <<request, chunks, cont_parent, walk>>

\* ------------------------------------------------------------ specification

Init ==
  /\ chain = [t \in Threads |-> <<>>]
  /\ done = [c \in Conts |-> FALSE]
  /\ preempted = [c \in Conts |-> FALSE]
  /\ preempting = [t \in Threads |-> FALSE]
  /\ in_VTMS_transition = [t \in Threads |-> FALSE]
  /\ notify_jvmti_events \in BOOLEAN
  /\ fail_counter = 0
  /\ last = NoCall
  /\ request = [r \in Requesters |-> NoRequest]
  /\ chunks = [c \in Conts |-> <<>>]
  /\ cont_parent = [c \in Conts |-> NullOop]
  /\ walk = NoWalk

\* Native calls: any thread pins or unpins, any thread handle is asked to preempt.
Calls ==
  \/ \E t \in Threads : CONT_pin(t)
  \/ \E t \in Threads : CONT_unpin(t)
  \/ \E h \in ThreadHandles, c \in Conts : CONT_tryPreempt0(h, c)

\* The life cycle of the continuations mounted on the threads of ts.
Lifecycle(ts) ==
  \/ \E t \in ts, c \in Conts : Mount(t, c)
  \/ \E t \in ts : Yield(t)
  \/ \E t \in ts : MarkDone(t)
  \/ \E t \in ts : Exit(t)
  \/ \E t \in ts : ReturnFromFreeze(t)

Next ==
  \/ Calls
  \/ Lifecycle(Carriers)
  \/ \E t \in Carriers : VTMSTransition(t)
  \/ SetNotifyJvmtiEvents

\* One carrier, JVMTI notification switched on and off.
Spec == Init /\ [][Next]_vars

InitCarriers == Init /\ notify_jvmti_events = FALSE

NextCarriers ==
  \/ Calls
  \/ Lifecycle(Threads)

\* Every thread a carrier, JVMTI notification off.
SpecCarriers == InitCarriers /\ [][NextCarriers]_vars

\* The handshake of a request taken apart: dispatch, closure, return.
Handshakes(rs) ==
  \/ \E r \in rs, h \in Carriers \cup {DeadThread}, c \in Conts :
       CONT_tryPreempt0_dispatch(r, h, c)
  \/ \E r \in rs : PreemptHandshake_do_thread(r)
  \/ \E r \in rs : CONT_tryPreempt0_return(r)

NextHandshake ==
  \/ Handshakes(Requesters)
  \/ Lifecycle(Carriers)

NextHandshakeFair ==
  \/ Handshakes({"r1"})
  \/ Lifecycle(Carriers)

\* One carrier, two requesting threads, the steps of their requests interleaved with
\* each other and with the carrier's mounts and unmounts.
SpecHandshake == Init /\ [][NextHandshake]_vars

\* One carrier and one requesting thread: the handshake mechanism runs a dispatched
\* closure (the target reaches a handshake poll point and the freeze engine returns),
\* and a requester whose closure has run returns.
SpecHandshakeFair ==
  /\ Init
  /\ [][NextHandshakeFair]_vars
  /\ WF_vars(PreemptHandshake_do_thread("r1"))
  /\ WF_vars(CONT_tryPreempt0_return("r1"))

\* The n-th continuation reached from c along parent links.
RECURSIVE ParentAt(_, _, _)
ParentAt(p, c, n) ==
  IF c = NullOop \/ n = 0 THEN c ELSE ParentAt(p, p[c], n - 1)

\* The entry-record chains of at most MaxDepth distinct continuations.
NestedChains ==
  {<<>>} \cup
  UNION {{[i \in 1..n |-> Entry(f[i])] :
            f \in {g \in [1..n -> Conts] : \A i, j \in 1..n : g[i] = g[j] => i = j}} :
         n \in 1..MaxDepth}

\* Continuations at rest: some mounted on the carrier, nested or not, each with its
\* chunk list and its parent; the parent of a mounted continuation is the one it is
\* mounted in, and no continuation is its own ancestor.
InitFrames ==
  /\ chain \in {ch \in [Threads -> NestedChains] : \A t \in Threads \ Carriers : ch[t] = <<>>}
  /\ done = [c \in Conts |-> FALSE]
  /\ preempted = [c \in Conts |-> FALSE]
  /\ preempting = [t \in Threads |-> FALSE]
  /\ in_VTMS_transition = [t \in Threads |-> FALSE]
  /\ notify_jvmti_events = FALSE
  /\ fail_counter = 0
  /\ last = NoCall
  /\ request = [r \in Requesters |-> NoRequest]
  /\ chunks \in [Conts -> ChunkLists]
  /\ cont_parent \in [Conts -> Conts \cup {NullOop}]
  /\ \A c \in Conts : ParentAt(cont_parent, c, Cardinality(Conts)) = NullOop
  /\ \A t \in Carriers : \A k \in 1..Len(chain[t]) :
       cont_parent[chain[t][k].cont] =
         IF k < Len(chain[t]) THEN chain[t][k + 1].cont ELSE NullOop
  /\ walk = NoWalk

NextFrames ==
  \/ \E th \in Carriers \cup {NullThread}, c \in Conts : Walk_last_frame(th, c)
  \/ \E th \in Carriers \cup {NullThread}, c \in Conts : Walk_has_last_Java_frame(th, c)
  \/ \E t \in Carriers, sp \in 0..(2 * MaxDepth) : Walk_top_frame(t, sp)
  \/ Walk_continuation_parent_frame

\* Stack walks over continuations at rest.
SpecFrames == InitFrames /\ [][NextFrames]_vars

\* ------------------------------------------------------------- properties

\* The step is a preemption request for continuation c whose handshake closure ran
\* on target t.
PreemptStep(t, c) ==
  /\ last'.op = "try_preempt"
  /\ last'.handshake
  /\ last'.thr = t
  /\ last'.cont = c

\* c is the innermost continuation of t and has not finished.
MountedNotDone(t, c) ==
  /\ chain[t] # <<>>
  /\ Head(chain[t]).cont = c
  /\ ~done[c]

\* The last call was a preemption request whose closure ran.
Preempted(res) ==
  /\ last.op = "try_preempt"
  /\ last.handshake
  /\ last.res = res

\* C1: a request for a continuation that is not the target's innermost one (no
\* entry, another continuation's entry, or a finished continuation) returns
\* freeze_not_mounted, calls neither the debug transition nor the freeze engine and
\* changes nothing, however often it is repeated.
C1_NotMountedRefusal ==
  [][\A t \in Threads, c \in Conts :
       (/\ PreemptStep(t, c)
        /\ (chain[t] = <<>> \/ Head(chain[t]).cont # c \/ done[c]))
       => /\ last'.res = freeze_not_mounted
          /\ last'.engine = "not_called"
          /\ last'.start_VTMS_transition = "not_called"
          /\ last'.completion = "none"
          /\ UNCHANGED <<chain, done, preempted, preempting, in_VTMS_transition,
                         notify_jvmti_events, fail_counter>>]_vars

\* C1 witness: a repeated request for a finished continuation whose entry record is
\* still the target's innermost one has been refused.
C1_Witness ==
  /\ Preempted(freeze_not_mounted)
  /\ last.repeat
  /\ chain[last.thr] # <<>>
  /\ Head(chain[last.thr]).cont = last.cont
  /\ done[last.cont]

\* C2: for a mounted, unfinished continuation, if a safety predicate fails (target
\* preempting, no last Java frame, pending exception, unsafe pc, vthread predicate
\* false) the request returns freeze_pinned_native, the freeze engine is not
\* called, and the chain, the preempted flags, the preempting flags and the
\* transition flags are unchanged.
C2_UnsafeRefusal ==
  [][\A t \in Threads, c \in Conts :
       (/\ PreemptStep(t, c)
        /\ MountedNotDone(t, c)
        /\ \/ preempting[t]
           \/ ~last'.snap.has_last_Java_frame
           \/ last'.snap.has_pending_exception
           \/ ~is_safe_pc_to_preempt(last'.snap.last_Java_pc, last'.snap)
           \/ /\ continuation_scope(c) = vthread_scope
              /\ ~is_safe_vthread_to_preempt(t, last'.snap))
       => /\ last'.res = freeze_pinned_native
          /\ last'.engine = "not_called"
          /\ UNCHANGED <<chain, preempted, preempting, in_VTMS_transition>>]_vars

\* C2 witness: a request found the mounted continuation's thread with a pending
\* exception and was refused.
C2_Witness ==
  /\ Preempted(freeze_pinned_native)
  /\ last.snap.has_pending_exception
  /\ MountedNotDone(last.thr, last.cont)
  /\ ~preempting[last.thr]

\* The freeze engine was called by the last request.
EngineCalled == last.op = "try_preempt" /\ last.engine # "not_called"

C6_FailedFreezeRollback ==
  [][\A t \in Threads, c \in Conts :
       (/\ PreemptStep(t, c)
        /\ last'.engine \notin {"not_called", freeze_ok})
       => /\ ~preempting'[t]
          /\ fail_counter' = fail_counter + 1
          /\ last'.start_VTMS_transition = "succeeded"
                => /\ last'.completion = "finish_VTMS_transition"
                   /\ ~in_VTMS_transition'[t]
          /\ last'.start_VTMS_transition # "succeeded" => last'.completion = "none"
          /\ chain' = chain
          /\ FramesOnStack(t, c)'
          /\ ~preempted'[c]]_vars

\* C6 witness: a second failed freeze, for which a debug transition had begun.
C6_Witness ==
  /\ EngineCalled
  /\ last.engine = freeze_pinned_cs
  /\ last.start_VTMS_transition = "succeeded"
  /\ fail_counter = 2

\* The target of the step's request is at a compiled instruction that is no
\* safepoint stub, with a last Java frame and no pending exception, and is not
\* preempting.
AtNonSafepointCompiledPc(t) ==
  /\ ~preempting[t]
  /\ last'.snap.has_last_Java_frame
  /\ ~last'.snap.has_pending_exception
  /\ last'.snap.last_Java_pc = "other_blob"

PinStep(t) == last'.op = "pin" /\ last'.thr = t
UnpinStep(t) == last'.op = "unpin" /\ last'.thr = t

\* t's chain with the innermost entry's pin count set to n.
WithHeadPinCount(t, n) == <<[Head(chain[t]) EXCEPT !.pin_count = n]>> \o Tail(chain[t])

\* C8: on a thread with a mounted continuation, unpin() at pin_count 0 fails with
\* "pin underflow" and leaves the count at 0; unpin() at a positive count succeeds
\* and takes one off; an unpin() right after a successful pin() brings the count back
\* to what it was before the pin(); no pin count is ever negative.
C8_PinBalance ==
  [][\A t \in Threads :
       /\ (UnpinStep(t) /\ chain[t] # <<>> /\ HeadPinCount(t) = 0)
            => /\ ~last'.res
               /\ last'.exception = "pin underflow"
               /\ chain' = chain
       /\ (UnpinStep(t) /\ chain[t] # <<>> /\ HeadPinCount(t) > 0)
            => /\ last'.res
               /\ last'.exception = "none"
               /\ chain' = [chain EXCEPT ![t] = WithHeadPinCount(t, HeadPinCount(t) - 1)]
       /\ (/\ last.op = "pin" /\ last.thr = t /\ last.res
           /\ UnpinStep(t) /\ chain[t] # <<>>)
            => /\ last'.res
               /\ HeadPinCount(t)' = last.pin_count_before
       /\ \A i \in 1..Len(chain'[t]) : chain'[t][i].pin_count >= 0]_vars

\* C8 witness: an unpin() right after a successful pin() at count 1 succeeded and the
\* count is 1 again.
C8_Witness ==
  /\ last.op = "unpin"
  /\ last.res
  /\ last.pin_count_before = 2
  /\ chain[last.thr] # <<>>
  /\ HeadPinCount(last.thr) = 1

\* C9: pin() at the maximum count fails with "pin overflow" and leaves the count as
\* it is, below the maximum it succeeds and adds one, and no pin count ever exceeds
\* the maximum; with no continuation mounted on the calling thread pin() and unpin()
\* return true and change nothing.
C9_PinOverflowAndUnmounted ==
  [][\A t \in Threads :
       /\ (PinStep(t) /\ chain[t] # <<>> /\ HeadPinCount(t) = PinMax)
            => /\ ~last'.res
               /\ last'.exception = "pin overflow"
               /\ chain' = chain
       /\ (PinStep(t) /\ chain[t] # <<>> /\ HeadPinCount(t) < PinMax)
            => /\ last'.res
               /\ last'.exception = "none"
               /\ chain' = [chain EXCEPT ![t] = WithHeadPinCount(t, HeadPinCount(t) + 1)]
       /\ ((PinStep(t) \/ UnpinStep(t)) /\ chain[t] = <<>>)
            => /\ last'.res
               /\ last'.exception = "none"
               /\ UNCHANGED <<chain, done, preempted, preempting, in_VTMS_transition,
                              notify_jvmti_events, fail_counter>>
       /\ \A i \in 1..Len(chain'[t]) : chain'[t][i].pin_count <= PinMax]_vars

\* C9 witness: pin() at the maximum count has failed.
C9_Witness ==
  /\ last.op = "pin"
  /\ ~last.res
  /\ last.exception = "pin overflow"
  /\ chain[last.thr] # <<>>
  /\ HeadPinCount(last.thr) = PinMax

\* The pin count of c's entry record in t's chain.
PinCountOf(t, c) ==
  chain[t][CHOOSE i \in 1..Len(chain[t]) : chain[t][i].cont = c].pin_count

\* C10: the pin count of an entry record that stays in a thread's chain changes only
\* in a pin() or unpin() call made by that thread while the record is the innermost
\* one; a preemption request changes no pin count.
C10_PinCountOwnership ==
  [][/\ \A t \in Threads : \A c \in ChainConts(t) \cap ChainConts(t)' :
          PinCountOf(t, c)' # PinCountOf(t, c)
            => /\ last'.op \in {"pin", "unpin"}
               /\ last'.thr = t
               /\ Head(chain[t]).cont = c
     /\ last'.op = "try_preempt"
          => \A t \in Threads :
               /\ Len(chain'[t]) = Len(chain[t])
               /\ \A i \in 1..Len(chain[t]) :
                    chain'[t][i].pin_count = chain[t][i].pin_count]_vars

\* C10 witness: the innermost of two nested entries was pinned twice while the outer
\* one kept its count of 1.
C10_Witness ==
  /\ last.op = "pin"
  /\ last.res
  /\ Len(chain[last.thr]) = 2
  /\ chain[last.thr][1].pin_count = 2
  /\ chain[last.thr][2].pin_count = 1

\* The continuations of t's entry records, innermost first.
ChainOrder(t) == [i \in 1..Len(chain[t]) |-> chain[t][i].cont]

AtPc(pc, poll) ==
  [NothingRead EXCEPT !.last_Java_pc = pc, !.is_at_poll_safepoint = poll]

\* The allow-list with the poll-safepoint condition: a return-bytecode handler, a
\* safepoint-entry codelet, or a safepoint stub while not at a poll safepoint.
PcAllowedUnlessAtPollSafepoint(s) ==
  \/ s.last_Java_pc \in {"interp_return_bytecode", "interp_safepoint_entry"}
  \/ s.last_Java_pc = "safepoint_stub" /\ ~s.is_at_poll_safepoint

\* The allow-list without it.
PcAllowed(s) ==
  s.last_Java_pc \in {"interp_return_bytecode", "interp_safepoint_entry", "safepoint_stub"}

VthreadConditions(t, s) ==
  /\ s.vthread_running
  /\ ~s.is_preemption_disabled
  /\ notify_jvmti_events => (~in_VTMS_transition[t] /\ ~s.is_suspended)

OtherScopeInTransition ==
  /\ EngineCalled
  /\ continuation_scope(last.cont) # vthread_scope
  /\ notify_jvmti_events
  /\ in_VTMS_transition[last.thr]

\* C14: start_VTMS_transition is called only for a mounted continuation of the
\* virtual-thread scope with JVMTI notification on; when it fails the request returns
\* freeze_pinned_native, the engine is not called, neither finish_VTMS_transition nor
\* the rebind is called, and the preempting flag, the failure counter and everything
\* else stay as they were.
C14_BeginFailure ==
  [][\A t \in Threads, c \in Conts :
       PreemptStep(t, c)
         => /\ last'.start_VTMS_transition # "not_called"
                 => /\ MountedNotDone(t, c)
                    /\ continuation_scope(c) = vthread_scope
                    /\ notify_jvmti_events
            /\ last'.start_VTMS_transition = "failed"
                 => /\ last'.res = freeze_pinned_native
                    /\ last'.engine = "not_called"
                    /\ last'.completion = "none"
                    /\ ~preempting'[t]
                    /\ UNCHANGED <<chain, done, preempted, preempting, in_VTMS_transition,
                                   notify_jvmti_events, fail_counter>>]_vars

\* C14 witness: a request whose start_VTMS_transition failed, after an earlier
\* failed freeze had moved the failure counter.
C14_Witness ==
  /\ last.op = "try_preempt"
  /\ last.start_VTMS_transition = "failed"
  /\ fail_counter = 1

\* C15: a request whose start_VTMS_transition succeeded reaches the engine and closes
\* the transition with one call before it returns: the rebind when the engine
\* returned freeze_ok (the target stays in the transition), finish_VTMS_transition
\* otherwise (the target is out of it); a request that did not call
\* start_VTMS_transition, or whose call failed, makes neither call.
C15_BeginFinishPairs ==
  [][\A t \in Threads, c \in Conts :
       PreemptStep(t, c)
         => /\ last'.start_VTMS_transition = "succeeded"
                 => /\ last'.engine # "not_called"
                    /\ last'.completion =
                          IF last'.engine = freeze_ok
                            THEN "rebind_to_jvmti_thread_state_of"
                            ELSE "finish_VTMS_transition"
                    /\ in_VTMS_transition'[t] = (last'.engine = freeze_ok)
            /\ last'.start_VTMS_transition # "succeeded"
                 => /\ last'.completion = "none"
                    /\ in_VTMS_transition' = in_VTMS_transition]_vars

\* C15 witness: a transition was begun and closed by the rebind after a successful
\* freeze.
C15_Witness ==
  /\ last.op = "try_preempt"
  /\ last.start_VTMS_transition = "succeeded"
  /\ last.engine = freeze_ok
  /\ last.completion = "rebind_to_jvmti_thread_state_of"
  /\ in_VTMS_transition[last.thr]

\* C18: is_continuation_mounted(thread, C) is true iff the thread's chain has an entry
\* record for C whose stack region is part of the thread's live stack, so it is false
\* for the stale record of a continuation that a preemption has frozen and whose
\* thread has not yet returned through the entry frame, and false for a null thread
\* or a null continuation.
C18_StaleEntryNotMounted ==
  /\ \A t \in Threads, c \in Conts :
       is_continuation_mounted(t, c) <=> FramesOnStack(t, c)
  /\ \A c \in Conts : ~is_continuation_mounted(NullThread, c)
  /\ \A t \in Threads : ~is_continuation_mounted(t, NullOop)

\* The entry record of a frozen continuation is still linked and the query answers
\* true for it.
StaleEntryReportedMounted ==
  \E t \in Threads :
    /\ preempting[t]
    /\ verify_preemption(t)
    /\ is_continuation_mounted(t, Head(chain[t]).cont)

\* The step hands r's closure to the handshake mechanism / runs it / returns its
\* result to r.
DispatchStep(r) == request[r].state = "idle" /\ request'[r].state = "dispatched"
ClosureStep(r) == request[r].state = "dispatched" /\ request'[r].state = "completed"
ReturnStep(r) == last'.op = "return" /\ last'.requester = r

C17_DispatchedCompletes ==
  /\ [][\A r \in Requesters :
          /\ request[r].state = "dispatched"
               => \/ request'[r] = request[r]
                  \/ /\ request'[r].state = "completed"
                     /\ last'.op = "try_preempt"
                     /\ last'.handshake
                     /\ request'[r].result = last'.res
          /\ (request[r].state # "idle" /\ request'[r].state = "idle")
               => /\ request[r].state = "completed"
                  /\ ReturnStep(r)
                  /\ last'.res = request[r].result
                  /\ last'.res \in EngineResults \cup {freeze_not_mounted}]_vars
  /\ \A r \in Requesters :
       (request[r].state = "dispatched") ~> (last.op = "return" /\ last.requester = r)

\* C17 witness: a requester has returned from a handshake with freeze_ok and the
\* target has not resumed yet.
C17_Witness ==
  \E r \in Requesters :
    /\ last.op = "return"
    /\ last.requester = r
    /\ last.res = freeze_ok
    /\ preempting[last.thr]
    /\ request[r].state = "idle"

\* The last query asked for the top frame of a continuation.
TopFrameQuery == walk.op \in {"last_frame", "top_frame", "has_last_Java_frame"}

\* The top frame of the newest non-empty chunk of c was returned and the map is in
\* that chunk; with no non-empty chunk, no frame was returned.
TopFrameFromChunks(c) ==
  LET full == {i \in 1..Len(chunks[c]) : ~chunks[c][i].is_empty}
  IN IF full = {}
       THEN /\ walk.frame.kind # "heap"
            /\ walk.op = "has_last_Java_frame"
                 => (~walk.ret /\ walk.frame.kind = "unset" /\ walk.map.stack_chunk = NoChunk)
            /\ walk.op # "has_last_Java_frame"
                 => (walk.frame = EmptyFrame /\ walk.map.stack_chunk = NoChunk)
       ELSE /\ walk.ret
            /\ walk.frame.kind = "heap"
            /\ walk.frame.cont = c
            /\ walk.frame.chunk \in full
            /\ \A i \in full : walk.frame.chunk <= i
            /\ walk.map.stack_chunk = ChunkRef(c, walk.frame.chunk)

\* c has an entry record on some thread.
Mounted(c) == \E t \in Threads : is_continuation_mounted(t, c)

\* C19 as stated: for an unmounted continuation the top-frame query returns the top
\* frame of its newest non-empty chunk, or no frame when it has none; for a mounted
\* continuation it returns the top frame of the live thread stack, not a frame of
\* its chunks.
C19_MountedFromLiveStack ==
  TopFrameQuery
    => IF Mounted(walk.cont) THEN walk.frame.kind = "stack"
       ELSE TopFrameFromChunks(walk.cont)

\* C19 amended: the top-frame query returns the top frame of the continuation's
\* newest non-empty chunk, skipping empty chunks, and no frame when every chunk is
\* empty, whether the continuation is mounted or not.
C19_TopFrameFromChunks ==
  TopFrameQuery => TopFrameFromChunks(walk.cont)

\* C19 witness: a walk left the thawed frames of a mounted continuation and got the
\* top frame of its second chunk, the newest one being empty.
C19_Witness ==
  /\ walk.op = "top_frame"
  /\ Mounted(walk.cont)
  /\ walk.frame.kind = "heap"
  /\ walk.frame.chunk = 2

\* The number of continuations from c along parent links.
RECURSIVE ParentDepth(_)
ParentDepth(c) == IF c = NullOop THEN 0 ELSE 1 + ParentDepth(cont_parent[c])

\* C20: continuation_parent_frame on a map in continuation c returns, for c not
\* mounted on the map's thread, the top frame of the newest non-empty chunk of c's
\* parent, or the empty frame with the map's chunk cleared when c has no parent or
\* the parent has no non-empty chunk; for c mounted, the carrier frame at the entry
\* record's saved entry_sp with the map's chunk cleared; each call either ends the
\* walk through the chunks or moves it to a continuation with fewer ancestors.
C20_ParentFrame ==
  [][walk'.op = "continuation_parent_frame"
       => LET map == walk.map
              c == map.stack_chunk.cont
              entry == get_continuation_entry_for_continuation(map.thread, c)
              p == cont_parent[c]
              full == IF p = NullOop THEN {}
                      ELSE {i \in 1..Len(chunks[p]) : ~chunks[p][i].is_empty}
          IN /\ walk'.cont = c
             /\ (entry = 0 /\ full # {})
                  => /\ walk'.frame.kind = "heap"
                     /\ walk'.frame.cont = p
                     /\ walk'.frame.chunk \in full
                     /\ \A i \in full : walk'.frame.chunk <= i
                     /\ walk'.map.stack_chunk = ChunkRef(p, walk'.frame.chunk)
             /\ (entry = 0 /\ full = {})
                  => /\ walk'.frame = EmptyFrame
                     /\ walk'.map.stack_chunk = NoChunk
             /\ entry # 0
                  => /\ walk'.frame = [kind |-> "carrier", thread |-> map.thread,
                                        sp |-> entry_sp(entry)]
                     /\ walk'.map.stack_chunk = NoChunk
             /\ \/ walk'.map.stack_chunk = NoChunk
                \/ ParentDepth(walk'.map.stack_chunk.cont) < ParentDepth(c)]_vars

\* C20 witness: the walk reached the end of the inner one of two nested mounted
\* continuations and got the carrier frame below its entry record.
C20_Witness ==
  /\ walk.op = "continuation_parent_frame"
  /\ walk.frame.kind = "carrier"
  /\ Len(chain[walk.frame.thread]) = 2
  /\ chain[walk.frame.thread][1].cont = walk.cont

\* The walk moved from an unmounted continuation into a chunk of its parent.
WalkIntoParentChunk ==
  /\ walk.op = "continuation_parent_frame"
  /\ walk.frame.kind = "heap"
  /\ walk.frame.cont = cont_parent[walk.cont]

\* The step is a request whose continuation is the target's innermost unfinished one
\* and whose safety predicates returned true: try_preempt reaches its assertion.
PassesPredicates(t, c) ==
  /\ PreemptStep(t, c)
  /\ ~try_preempt_not_mounted(t, c)
  /\ is_safe_to_preempt(t, last'.snap, continuation_scope(c) = vthread_scope)

PreemptedRefusedBeforeAssertion ==
  /\ Preempted(freeze_pinned_native)
  /\ last.engine = "not_called"
  /\ last.start_VTMS_transition = "not_called"
  /\ chain[last.thr] # <<>>
  /\ Head(chain[last.thr]).cont = last.cont
  /\ preempted[last.cont]
  /\ preempting[last.thr]

\* t's innermost entry record is that of a continuation a preemption has frozen: the
\* mount on which a request succeeded and which t has not yet left.
FrozenRecord(t) == chain[t] # <<>> /\ ~Head(chain[t]).on_stack

DeadHandleStep == last'.op = "try_preempt" /\ last'.thr \notin Threads

\* C23: a request whose thread handle resolves to no live thread returns
\* freeze_not_mounted, dispatches no handshake and changes nothing of any thread,
\* continuation or request; no handshake is ever dispatched to such a handle; the
\* closure's result is freeze_not_mounted from its construction until the closure
\* runs; and what a requester returns is the closure's result, so it is
\* freeze_not_mounted unless the closure ran and stored another status.
C23_DeadHandle ==
  [][/\ DeadHandleStep
          => /\ last'.res = freeze_not_mounted
             /\ ~last'.handshake
             /\ last'.engine = "not_called"
             /\ last'.start_VTMS_transition = "not_called"
             /\ UNCHANGED <<chain, done, preempted, preempting, in_VTMS_transition,
                            notify_jvmti_events, fail_counter, request>>
     /\ \A r \in Requesters :
          /\ request'[r].state = "dispatched"
               => /\ request'[r].target \in Threads
                  /\ request'[r].result = freeze_not_mounted
          /\ (request'[r].state = "completed" /\ request'[r].result # freeze_not_mounted)
               => (request'[r] = request[r] \/ ClosureStep(r))
          /\ ReturnStep(r)
               => /\ last'.res = request[r].result
                  /\ (last'.res # freeze_not_mounted => request[r].state = "completed")]_vars

\* C23 witness: a request with a dead thread handle for a continuation that is
\* mounted and live on the carrier has returned freeze_not_mounted with no
\* handshake, while another requester's handshake for that continuation is under way.
C23_Witness ==
  /\ last.op = "try_preempt"
  /\ last.thr = DeadThread
  /\ last.res = freeze_not_mounted
  /\ ~last.handshake
  /\ \E t \in Carriers : /\ MountedNotDone(t, last.cont)
                         /\ ~preempting[t]
                         /\ \E r \in Requesters : /\ request[r].state = "dispatched"
                                                  /\ request[r].target = t
                                                  /\ request[r].cont = last.cont

====
